---- MODULE Spec2Model ----
(***************************************************************************)
(* Model of the conversational todo backend: the task table, the five MCP  *)
(* tools (src/mcp/tools.py), the tool executor (src/mcp/server.py), the    *)
(* query/action agents (src/agents/), the orchestrator's single-turn tool  *)
(* loop (src/agents/todo_orchestrator.py), the REST service's update       *)
(* (src/services/todo_service.py) and the chat endpoint (src/chat.py).     *)
(*                                                                         *)
(* Titles and search terms are sequences of one-character strings so that  *)
(* str.lower() and the substring test can be computed; messages are real   *)
(* strings built the way the f-strings build them.                         *)
(***************************************************************************)
EXTENDS Integers, Sequences, FiniteSets, TLC

VARIABLES
    tasks,      \* the task table: id -> row (models/task.py Task)
    nextId,     \* the id the table's sequence assigns next
    call,       \* the last call made on the tool layer
    result,     \* what that call returned (or the exception it raised)
    listed,     \* search_tasks' local `result`: the underlying list result
    turn,       \* the orchestrator's process_message activation
    before,     \* history: the task table when the tool call in progress began
    deleted,    \* history: the ids for which delete_task has returned success
    conversations,  \* the conversation table: id -> row (models/conversation.py)
    messages,       \* the message table: id -> row (models/message.py)
    chats           \* the chat requests: request -> activation of chat_endpoint

chatVars == <<conversations, messages, chats>>

vars == <<tasks, nextId, call, result, listed, turn, before, deleted,
          conversations, messages, chats>>

-----------------------------------------------------------------------------
(* Bounds of the model *)

MaxTasks == 2       \* rows the table's sequence hands out
MaxClock == 2       \* distinct readings of datetime.utcnow()
MaxCalls == 2       \* tool invocations the model returns in one turn
MaxRequests == 2    \* chat requests the service receives

-----------------------------------------------------------------------------
(* Values *)

Users == {"u1", "u2"}
Titles == {<<"A", "b">>, <<"b">>}
Terms == {<<>>, <<"a">>, <<"B">>, <<"a", "B">>}
TaskIds == 1..MaxTasks
Clock == 1..MaxClock
Filters == {"pending", "completed", "all"}

None == 0           \* completed_at of a task never completed

\* A keyword argument for task_id: an integer, or an ill-typed string.
IntArg(n) == [int |-> n]
StrArg(s) == [str |-> s]
IsInt(v) == DOMAIN v = {"int"}

RegisteredTools == {"add_task", "list_tasks", "complete_task", "delete_task", "update_task"}
ToolNames == RegisteredTools \cup {"archive_task"}

\* str(title) as it is interpolated into a message
RECURSIVE Str(_)
Str(s) == IF s = <<>> THEN "" ELSE Head(s) \o Str(Tail(s))

\* str.lower() on one character, then on a string
LowerChar(c) == CASE c = "A" -> "a" [] c = "B" -> "b" [] OTHER -> c
Lower(s) == [i \in 1..Len(s) |-> LowerChar(s[i])]

\* Python's `a in b` on strings: a is a contiguous substring of b
IsSubstring(a, b) ==
    \E k \in 0..(Len(b) - Len(a)) : \A j \in 1..Len(a) : b[k + j] = a[j]

\* All orderings of a finite set of ids: rows come back in no stated order
\* (the SELECT has no ORDER BY).
RECURSIVE Orderings(_)
Orderings(S) ==
    IF S = {} THEN {<<>>}
    ELSE UNION {{<<x>> \o rest : rest \in Orderings(S \ {x})} : x \in S}

Raised(exc) == [exception |-> exc]
IsRaised(r) == "exception" \in DOMAIN r

-----------------------------------------------------------------------------
(* The task table and the five tools (src/mcp/tools.py).                   *)
(* Every tool returns [tasks, nextId, res]: the table after the call and   *)
(* the dictionary returned.  `fault` is where the database fails, if it    *)
(* does: "none", "before" (any statement up to the commit, nothing is      *)
(* stored) or "after" (the commit is durable and a later statement of the  *)
(* tool body fails).  Every tool body is one try/except Exception.         *)

Task(user_id, title) ==
    [user_id |-> user_id, title |-> title, status |-> "pending", completed_at |-> None]

DbError == "OperationalError"

\* Mutant: the row is never committed, yet success is reported
add_task_uncommitted(ts, nid, user_id, title, fault) ==
    IF fault = "before"
    THEN [tasks |-> ts, nextId |-> nid,
          res |-> [success |-> FALSE, message |-> "Error adding task: " \o DbError]]
    ELSE [tasks |-> ts, nextId |-> nid + 1,
          res |-> [success |-> TRUE, task_id |-> nid,
                   message |-> "Successfully added task '" \o Str(title) \o "'"]]

add_task(ts, nid, user_id, title, fault) ==
    IF fault = "before"
    THEN [tasks |-> ts, nextId |-> nid,
          res |-> [success |-> FALSE, message |-> "Error adding task: " \o DbError]]
    ELSE LET stored == ts @@ (nid :> Task(user_id, title))
         IN  IF fault = "after"   \* session.refresh(task) fails after the commit
             THEN [tasks |-> stored, nextId |-> nid + 1,
                   res |-> [success |-> FALSE, message |-> "Error adding task: " \o DbError]]
             ELSE [tasks |-> stored, nextId |-> nid + 1,
                   res |-> [success |-> TRUE, task_id |-> nid,
                            message |-> "Successfully added task '" \o Str(title) \o "'"]]

\* Mutant: the query does not restrict the rows to the user's
SelectedOfAnyUser(ts, user_id, status_filter) ==
    {id \in DOMAIN ts :
        /\ status_filter = "pending" => ts[id].status = "pending"
        /\ status_filter = "completed" => ts[id].status = "completed"}

\* The rows the query of list_tasks selects
Selected(ts, user_id, status_filter) ==
    {id \in DOMAIN ts :
        /\ ts[id].user_id = user_id
        /\ status_filter = "pending" => ts[id].status = "pending"
        /\ status_filter = "completed" => ts[id].status = "completed"}

FormatTask(ts, id) == [id |-> id, title |-> ts[id].title, status |-> ts[id].status]

\* `order` is the order in which the database returns rows (a permutation
\* of all ids); the tool keeps it.
list_tasks(ts, nid, user_id, status_filter, order, fault) ==
    IF fault # "none"
    THEN [tasks |-> ts, nextId |-> nid,
          res |-> [success |-> FALSE, message |-> "Error listing tasks: " \o DbError]]
    ELSE LET sel == Selected(ts, user_id, status_filter)
             rows == SelectSeq(order, LAMBDA id : id \in sel)
             formatted_tasks == [i \in 1..Len(rows) |-> FormatTask(ts, rows[i])]
         IN  [tasks |-> ts, nextId |-> nid,
              res |-> [success |-> TRUE, tasks |-> formatted_tasks,
                       count |-> Len(formatted_tasks)]]

\* Mutant: the not-found result carries no message
NotFoundResultBare(task_id) == [success |-> FALSE]

NotFoundResult(task_id) ==
    [success |-> FALSE, message |-> "Task with ID " \o ToString(task_id) \o " not found"]

\* Mutant: completing a task that is already completed is an error
complete_task_once(ts, nid, user_id, task_id, now, fault) ==
    IF fault = "before" \/ ~IsInt(task_id)
    THEN [tasks |-> ts, nextId |-> nid,
          res |-> [success |-> FALSE, message |-> "Error completing task: " \o DbError]]
    ELSE IF task_id.int \notin DOMAIN ts
    THEN [tasks |-> ts, nextId |-> nid, res |-> NotFoundResult(task_id.int)]
    ELSE IF ts[task_id.int].user_id # user_id
    THEN [tasks |-> ts, nextId |-> nid,
          res |-> [success |-> FALSE,
                   message |-> "Access denied: You can only modify your own tasks"]]
    ELSE IF ts[task_id.int].status = "completed"
    THEN [tasks |-> ts, nextId |-> nid,
          res |-> [success |-> FALSE, message |-> "Task is already completed"]]
    ELSE [tasks |-> [ts EXCEPT ![task_id.int].status = "completed",
                               ![task_id.int].completed_at = now],
          nextId |-> nid,
          res |-> [success |-> TRUE,
                   message |-> "Successfully marked task '"
                               \o Str(ts[task_id.int].title) \o "' as completed"]]

complete_task(ts, nid, user_id, task_id, now, fault) ==
    IF fault = "before" \/ ~IsInt(task_id)
    THEN [tasks |-> ts, nextId |-> nid,
          res |-> [success |-> FALSE, message |-> "Error completing task: " \o DbError]]
    ELSE IF task_id.int \notin DOMAIN ts
    THEN [tasks |-> ts, nextId |-> nid, res |-> NotFoundResult(task_id.int)]
    ELSE IF ts[task_id.int].user_id # user_id
    THEN [tasks |-> ts, nextId |-> nid,
          res |-> [success |-> FALSE,
                   message |-> "Access denied: You can only modify your own tasks"]]
    ELSE LET stored == [ts EXCEPT ![task_id.int].status = "completed",
                                  ![task_id.int].completed_at = now]
         IN  IF fault = "after"   \* reloading task.title for the message fails
             THEN [tasks |-> stored, nextId |-> nid,
                   res |-> [success |-> FALSE,
                            message |-> "Error completing task: " \o DbError]]
             ELSE [tasks |-> stored, nextId |-> nid,
                   res |-> [success |-> TRUE,
                            message |-> "Successfully marked task '"
                                        \o Str(ts[task_id.int].title) \o "' as completed"]]

\* Mutant: the delete is never committed, yet success is reported
delete_task_kept(ts, nid, user_id, task_id, fault) ==
    IF fault # "none" \/ ~IsInt(task_id)
    THEN [tasks |-> ts, nextId |-> nid,
          res |-> [success |-> FALSE, message |-> "Error deleting task: " \o DbError]]
    ELSE IF task_id.int \notin DOMAIN ts
    THEN [tasks |-> ts, nextId |-> nid, res |-> NotFoundResult(task_id.int)]
    ELSE IF ts[task_id.int].user_id # user_id
    THEN [tasks |-> ts, nextId |-> nid,
          res |-> [success |-> FALSE,
                   message |-> "Access denied: You can only delete your own tasks"]]
    ELSE [tasks |-> ts, nextId |-> nid,
          res |-> [success |-> TRUE,
                   message |-> "Successfully deleted task '"
                               \o Str(ts[task_id.int].title) \o "'"]]

delete_task(ts, nid, user_id, task_id, fault) ==
    IF fault # "none" \/ ~IsInt(task_id)
    THEN [tasks |-> ts, nextId |-> nid,
          res |-> [success |-> FALSE, message |-> "Error deleting task: " \o DbError]]
    ELSE IF task_id.int \notin DOMAIN ts
    THEN [tasks |-> ts, nextId |-> nid, res |-> NotFoundResult(task_id.int)]
    ELSE IF ts[task_id.int].user_id # user_id
    THEN [tasks |-> ts, nextId |-> nid,
          res |-> [success |-> FALSE,
                   message |-> "Access denied: You can only delete your own tasks"]]
    ELSE [tasks |-> [id \in DOMAIN ts \ {task_id.int} |-> ts[id]], nextId |-> nid,
          res |-> [success |-> TRUE,
                   message |-> "Successfully deleted task '"
                               \o Str(ts[task_id.int].title) \o "'"]]

\* Mutant: the row is written back as a new, pending task
update_task_reopen(ts, nid, user_id, task_id, title, fault) ==
    IF fault # "none" \/ ~IsInt(task_id)
    THEN [tasks |-> ts, nextId |-> nid,
          res |-> [success |-> FALSE, message |-> "Error updating task: " \o DbError]]
    ELSE IF task_id.int \notin DOMAIN ts
    THEN [tasks |-> ts, nextId |-> nid, res |-> NotFoundResult(task_id.int)]
    ELSE IF ts[task_id.int].user_id # user_id
    THEN [tasks |-> ts, nextId |-> nid,
          res |-> [success |-> FALSE,
                   message |-> "Access denied: You can only modify your own tasks"]]
    ELSE [tasks |-> [ts EXCEPT ![task_id.int] = Task(user_id, title)], nextId |-> nid,
          res |-> [success |-> TRUE,
                   message |-> "Successfully updated task to '" \o Str(title) \o "'"]]

\* Mutant: the ownership check is missing
update_task_unchecked(ts, nid, user_id, task_id, title, fault) ==
    IF fault # "none" \/ ~IsInt(task_id)
    THEN [tasks |-> ts, nextId |-> nid,
          res |-> [success |-> FALSE, message |-> "Error updating task: " \o DbError]]
    ELSE IF task_id.int \notin DOMAIN ts
    THEN [tasks |-> ts, nextId |-> nid, res |-> NotFoundResult(task_id.int)]
    ELSE [tasks |-> [ts EXCEPT ![task_id.int].title = title], nextId |-> nid,
          res |-> [success |-> TRUE,
                   message |-> "Successfully updated task to '" \o Str(title) \o "'"]]

update_task(ts, nid, user_id, task_id, title, fault) ==
    IF fault # "none" \/ ~IsInt(task_id)
    THEN [tasks |-> ts, nextId |-> nid,
          res |-> [success |-> FALSE, message |-> "Error updating task: " \o DbError]]
    ELSE IF task_id.int \notin DOMAIN ts
    THEN [tasks |-> ts, nextId |-> nid, res |-> NotFoundResult(task_id.int)]
    ELSE IF ts[task_id.int].user_id # user_id
    THEN [tasks |-> ts, nextId |-> nid,
          res |-> [success |-> FALSE,
                   message |-> "Access denied: You can only modify your own tasks"]]
    ELSE [tasks |-> [ts EXCEPT ![task_id.int].title = title], nextId |-> nid,
          res |-> [success |-> TRUE,
                   message |-> "Successfully updated task to '" \o Str(title) \o "'"]]

\* TodoService.get_task_by_id_and_user: the row, or nothing
get_task_by_id_and_user(ts, user_id, task_id) ==
    IF task_id \in DOMAIN ts /\ ts[task_id].user_id = user_id
    THEN [found |-> TRUE, id |-> task_id, task |-> ts[task_id]]
    ELSE [found |-> FALSE]

-----------------------------------------------------------------------------
(* The executor (src/mcp/server.py) *)

\* The keyword parameters of each tool function, and those without default
Params(tool) ==
    CASE tool = "add_task" -> {"user_id", "title"}
      [] tool = "list_tasks" -> {"user_id", "status_filter"}
      [] tool = "complete_task" -> {"user_id", "task_id"}
      [] tool = "delete_task" -> {"user_id", "task_id"}
      [] tool = "update_task" -> {"user_id", "task_id", "title"}

Required(tool) == Params(tool) \ {"status_filter"}

\* tool_func(**kwargs) binds: no parameter is missing, no keyword is unexpected
Binds(tool, kwargs) ==
    Required(tool) \subseteq DOMAIN kwargs /\ DOMAIN kwargs \subseteq Params(tool)

\* The call tool_func(**kwargs) for a bound set of arguments.
\* env = [fault, now, order]: what the database and the clock do.
RunTool(ts, nid, tool, kwargs, env) ==
    CASE tool = "add_task" ->
            add_task(ts, nid, kwargs.user_id, kwargs.title, env.fault)
      [] tool = "list_tasks" ->
            list_tasks(ts, nid, kwargs.user_id,
                       IF "status_filter" \in DOMAIN kwargs
                       THEN kwargs.status_filter ELSE "all",
                       env.order, env.fault)
      [] tool = "complete_task" ->
            complete_task(ts, nid, kwargs.user_id, kwargs.task_id, env.now, env.fault)
      [] tool = "delete_task" ->
            delete_task(ts, nid, kwargs.user_id, kwargs.task_id, env.fault)
      [] tool = "update_task" ->
            update_task(ts, nid, kwargs.user_id, kwargs.task_id, kwargs.title, env.fault)

\* Mutant: the registry is indexed without the membership test, so an
\* unknown name is a KeyError inside the try
execute_tool_body_unguarded(ts, nid, tool_name, kwargs, env) ==
    IF tool_name \notin RegisteredTools
    THEN [tasks |-> ts, nextId |-> nid,
          res |-> [success |-> FALSE,
                   message |-> "Error executing tool '" \o tool_name \o "': KeyError"]]
    ELSE IF ~Binds(tool_name, kwargs)
    THEN [tasks |-> ts, nextId |-> nid,
          res |-> [success |-> FALSE,
                   message |-> "Error executing tool '" \o tool_name \o "': TypeError"]]
    ELSE RunTool(ts, nid, tool_name, kwargs, env)

\* The body of MCPServer.execute_tool
execute_tool_body(ts, nid, tool_name, kwargs, env) ==
    IF tool_name \notin RegisteredTools
    THEN [tasks |-> ts, nextId |-> nid,
          res |-> [success |-> FALSE,
                   message |-> "Tool '" \o tool_name \o "' not found"]]
    ELSE IF ~Binds(tool_name, kwargs)
    THEN \* TypeError from the call, caught by the executor's except
         [tasks |-> ts, nextId |-> nid,
          res |-> [success |-> FALSE,
                   message |-> "Error executing tool '" \o tool_name \o "': TypeError"]]
    ELSE RunTool(ts, nid, tool_name, kwargs, env)

\* The call self.mcp_server.execute_tool(tool_name, **kwargs): a keyword
\* named like one of execute_tool's own parameters cannot be bound, and the
\* TypeError is raised at the call, outside the executor's try.
execute_tool(ts, nid, tool_name, kwargs, env) ==
    IF "tool_name" \in DOMAIN kwargs \/ "self" \in DOMAIN kwargs
    THEN [tasks |-> ts, nextId |-> nid, res |-> Raised("TypeError")]
    ELSE execute_tool_body(ts, nid, tool_name, kwargs, env)

\* The tool body ran: the name is registered and the call bound
ToolBodyRuns(tool_name, kwargs) ==
    /\ "tool_name" \notin DOMAIN kwargs
    /\ "self" \notin DOMAIN kwargs
    /\ tool_name \in RegisteredTools
    /\ Binds(tool_name, kwargs)

-----------------------------------------------------------------------------
(* The inputs of the tool layer *)

TaskIdArgs == {IntArg(n) : n \in TaskIds} \cup {StrArg("abc")}

\* The strings a caller of a tool can pass as title: title: str, unvalidated
TitleArgs == Titles \cup {<<>>}

Kwargs ==
    {<<>>}
    \cup {[user_id |-> u] : u \in Users}
    \cup {[user_id |-> u, title |-> t] : u \in Users, t \in TitleArgs}
    \cup {[user_id |-> u, task_id |-> i] : u \in Users, i \in TaskIdArgs}
    \cup {[user_id |-> u, task_id |-> i, title |-> t] :
              u \in Users, i \in TaskIdArgs, t \in TitleArgs}
    \cup {[user_id |-> u, status_filter |-> f] : u \in Users, f \in Filters}
    \cup {[user_id |-> u, tool_name |-> "add_task"] : u \in Users}

NoEnv == [fault |-> "none", now |-> 1, order |-> <<>>]

\* What the environment can do during a call of the tool
Envs(tool_name, kwargs) ==
    IF ~ToolBodyRuns(tool_name, kwargs) THEN {NoEnv}
    ELSE CASE tool_name = "add_task" ->
                {[NoEnv EXCEPT !.fault = f] : f \in {"none", "before", "after"}}
           [] tool_name = "list_tasks" ->
                {[NoEnv EXCEPT !.order = o] : o \in Orderings(TaskIds)}
                \cup {[NoEnv EXCEPT !.fault = "before"]}
           [] tool_name = "complete_task" ->
                {[NoEnv EXCEPT !.now = t] : t \in Clock}
                \cup {[NoEnv EXCEPT !.fault = f] : f \in {"before", "after"}}
           [] OTHER ->
                {[NoEnv EXCEPT !.fault = f] : f \in {"none", "before"}}

-----------------------------------------------------------------------------
(* State machine of the tool layer *)

\* No call is in progress on the tool layer
NoCall == [op |-> "none"]

\* The id a call of the executor has deleted, going by what it returned
DeletedBy(tool_name, kwargs, res) ==
    IF tool_name = "delete_task" /\ ~IsRaised(res) /\ res.success
    THEN {kwargs.task_id.int} ELSE {}
IdleTurn == [pc |-> "idle"]

\* The chat requests, and one that has not arrived yet
ReqIds == 1..MaxRequests
NewChat == [pc |-> "new"]

Init ==
    /\ tasks = <<>>
    /\ nextId = 1
    /\ call = NoCall
    /\ result = NoCall
    /\ listed = NoCall
    /\ turn = IdleTurn
    /\ before = <<>>
    /\ deleted = {}
    /\ conversations = <<>>
    /\ messages = <<>>
    /\ chats = [r \in ReqIds |-> NewChat]

\* A caller (an agent method, execute_action) runs one tool through the executor.
ExecuteTool ==
    /\ call = NoCall
    /\ turn.pc = "idle"
    /\ \E tool_name \in ToolNames, kwargs \in Kwargs :
         \E env \in Envs(tool_name, kwargs) :
           LET out == execute_tool(tasks, nextId, tool_name, kwargs, env)
           IN  /\ out.nextId <= MaxTasks + 1
               /\ tasks' = out.tasks
               /\ nextId' = out.nextId
               /\ call' = [op |-> "execute_tool", tool_name |-> tool_name,
                           kwargs |-> kwargs]
               /\ result' = out.res
               /\ before' = tasks
               /\ deleted' = deleted \cup DeletedBy(tool_name, kwargs, out.res)
               /\ UNCHANGED <<listed, turn, chatVars>>

\* Mutant: only the search term is lowered, not the title
search_tasks_cased(ts, nid, user_id, search_term, status_filter, env) ==
    LET res == execute_tool(ts, nid, "list_tasks",
                            [user_id |-> user_id, status_filter |-> status_filter],
                            env).res
    IN  IF ~res.success
        THEN [listed |-> res, res |-> res]
        ELSE LET matching_tasks ==
                     SelectSeq(res.tasks,
                               LAMBDA task : IsSubstring(Lower(search_term), task.title))
             IN  [listed |-> res,
                  res |-> [success |-> TRUE, tasks |-> matching_tasks,
                           count |-> Len(matching_tasks)]]

\* TaskQueryAgent.search_tasks
search_tasks(ts, nid, user_id, search_term, status_filter, env) ==
    LET res == execute_tool(ts, nid, "list_tasks",
                            [user_id |-> user_id, status_filter |-> status_filter],
                            env).res
    IN  IF ~res.success
        THEN [listed |-> res, res |-> res]
        ELSE LET all_tasks == res.tasks
                 matching_tasks ==
                     SelectSeq(all_tasks,
                               LAMBDA task : IsSubstring(Lower(search_term), Lower(task.title)))
             IN  [listed |-> res,
                  res |-> [success |-> TRUE, tasks |-> matching_tasks,
                           count |-> Len(matching_tasks)]]

SearchTasks ==
    /\ call = NoCall
    /\ turn.pc = "idle"
    /\ \E user_id \in Users, search_term \in Terms, status_filter \in Filters :
         \E env \in Envs("list_tasks",
                         [user_id |-> user_id, status_filter |-> status_filter]) :
           LET out == search_tasks(tasks, nextId, user_id, search_term, status_filter, env)
           IN  /\ call' = [op |-> "search_tasks", user_id |-> user_id,
                           search_term |-> search_term, status_filter |-> status_filter]
               /\ result' = out.res
               /\ listed' = out.listed
               /\ before' = tasks
               /\ UNCHANGED <<tasks, nextId, turn, deleted, chatVars>>

\* TaskQueryAgent.list_tasks and the three methods that fix its filter
TaskQueryAgent_list_tasks(ts, nid, user_id, status_filter, env) ==
    execute_tool(ts, nid, "list_tasks",
                 [user_id |-> user_id, status_filter |-> status_filter], env)

get_pending_tasks(ts, nid, user_id, env) ==
    TaskQueryAgent_list_tasks(ts, nid, user_id, "pending", env)

get_completed_tasks(ts, nid, user_id, env) ==
    TaskQueryAgent_list_tasks(ts, nid, user_id, "completed", env)

get_all_tasks(ts, nid, user_id, env) ==
    TaskQueryAgent_list_tasks(ts, nid, user_id, "all", env)

\* A caller runs one of the listing methods of the TaskQueryAgent; the
\* wrappers take no filter
QueryTasks ==
    /\ call = NoCall
    /\ turn.pc = "idle"
    /\ \E user_id \in Users :
         \E env \in Envs("list_tasks", [user_id |-> user_id, status_filter |-> "all"]) :
           \/ \E status_filter \in Filters :
                LET out == TaskQueryAgent_list_tasks(tasks, nextId, user_id,
                                                     status_filter, env)
                IN  /\ call' = [op |-> "query_tasks", method |-> "list_tasks",
                                user_id |-> user_id, status_filter |-> status_filter]
                    /\ result' = out.res
                    /\ tasks' = out.tasks
                    /\ nextId' = out.nextId
           \/ \E method \in {"get_pending_tasks", "get_completed_tasks",
                              "get_all_tasks"} :
                LET out == CASE method = "get_pending_tasks" ->
                                   get_pending_tasks(tasks, nextId, user_id, env)
                             [] method = "get_completed_tasks" ->
                                   get_completed_tasks(tasks, nextId, user_id, env)
                             [] method = "get_all_tasks" ->
                                   get_all_tasks(tasks, nextId, user_id, env)
                IN  /\ call' = [op |-> "query_tasks", method |-> method,
                                user_id |-> user_id]
                    /\ result' = out.res
                    /\ tasks' = out.tasks
                    /\ nextId' = out.nextId
    /\ before' = tasks
    /\ UNCHANGED <<listed, turn, deleted, chatVars>>

\* TodoService.get_task_by_id_and_user, as GET /api/{user_id}/tasks/{task_id} calls it
GetTask ==
    /\ call = NoCall
    /\ turn.pc = "idle"
    /\ \E user_id \in Users, task_id \in TaskIds :
         /\ call' = [op |-> "get_task", user_id |-> user_id, task_id |-> task_id]
         /\ result' = get_task_by_id_and_user(tasks, user_id, task_id)
         /\ before' = tasks
         /\ UNCHANGED <<tasks, nextId, listed, turn, deleted, chatVars>>

\* The caller takes the returned value: the activation is over.
Return ==
    /\ call # NoCall
    /\ call' = NoCall
    /\ result' = NoCall
    /\ listed' = NoCall
    /\ before' = <<>>
    /\ UNCHANGED <<tasks, nextId, turn, deleted, chatVars>>

Next == ExecuteTool \/ SearchTasks \/ QueryTasks \/ GetTask \/ Return

Spec == Init /\ [][Next]_vars

-----------------------------------------------------------------------------
(* TaskActionAgent.execute_action (src/agents/task_action.py)              *)

ActionTags == {"add", "update", "delete", "complete", "archive"}

\* The keyword arguments a caller passes besides action and user_id
ActionKwargs ==
    {<<>>}
    \cup {[title |-> t] : t \in Titles}
    \cup {[task_id |-> i] : i \in TaskIdArgs}
    \cup {[task_id |-> IntArg(1), title |-> t] : t \in Titles}

\* Mutant: complete is mapped to the delete method
action_map_swapped ==
    [add |-> "add_task", update |-> "update_task",
     delete |-> "delete_task", complete |-> "delete_task"]

\* Lines 82-87: the tag and the agent method it stands for, each method
\* named here by the tool its body runs
action_map ==
    [add |-> "add_task", update |-> "update_task",
     delete |-> "delete_task", complete |-> "complete_task"]

\* Lines 17, 30, 44, 57: the parameters of the agent method besides user_id
MethodParams(tool) == Params(tool) \ {"user_id"}

\* `executed` is the executor call made, if one was made.
execute_action(ts, nid, action, user_id, kwargs, env) ==
    IF action \notin DOMAIN action_map
    THEN [tasks |-> ts, nextId |-> nid, executed |-> <<>>,
          res |-> [success |-> FALSE,
                   message |-> "Action '" \o action \o "' not supported"]]
    ELSE LET tool == action_map[action]
         IN  IF DOMAIN kwargs # MethodParams(tool)
             THEN \* action_func(user_id=user_id, **kwargs) does not bind
                  [tasks |-> ts, nextId |-> nid, executed |-> <<>>,
                   res |-> Raised("TypeError")]
             ELSE LET args == [k \in DOMAIN kwargs \cup {"user_id"} |->
                                  IF k = "user_id" THEN user_id ELSE kwargs[k]]
                      out == execute_tool(ts, nid, tool, args, env)
                  IN  [tasks |-> out.tasks, nextId |-> out.nextId,
                       executed |-> <<[tool_name |-> tool, kwargs |-> args]>>,
                       res |-> out.res]

\* What the environment can do during a call of execute_action
ActionEnvs(action, user_id, kwargs) ==
    IF action \in DOMAIN action_map /\ DOMAIN kwargs = MethodParams(action_map[action])
    THEN Envs(action_map[action],
              [k \in DOMAIN kwargs \cup {"user_id"} |->
                  IF k = "user_id" THEN user_id ELSE kwargs[k]])
    ELSE {NoEnv}

ExecuteAction ==
    /\ call = NoCall
    /\ turn.pc = "idle"
    /\ \E action \in ActionTags, user_id \in Users, kwargs \in ActionKwargs :
         \E env \in ActionEnvs(action, user_id, kwargs) :
           LET out == execute_action(tasks, nextId, action, user_id, kwargs, env)
           IN  /\ out.nextId <= MaxTasks + 1
               /\ tasks' = out.tasks
               /\ nextId' = out.nextId
               /\ call' = [op |-> "execute_action", action |-> action,
                           user_id |-> user_id, kwargs |-> kwargs,
                           executed |-> out.executed, env |-> env, nextId |-> nextId]
               /\ result' = out.res
               /\ before' = tasks
               /\ deleted' = deleted \cup
                     (IF out.executed = <<>> THEN {}
                      ELSE DeletedBy(out.executed[1].tool_name,
                                     out.executed[1].kwargs, out.res))
               /\ UNCHANGED <<listed, turn, chatVars>>

NextAction == Next \/ ExecuteAction

SpecAction == Init /\ [][NextAction]_vars

-----------------------------------------------------------------------------
(* The REST service: TodoService (src/services/todo_service.py)            *)

\* The bodies of PUT /api/{user_id}/tasks/{task_id} that pass the validation
\* of TaskUpdate: each field is left out or has a valid value
TaskUpdates ==
    {<<>>}
    \cup {[title |-> t] : t \in Titles}
    \cup {[status |-> st] : st \in {"pending", "completed"}}
    \cup {[title |-> t, status |-> st] : t \in Titles, st \in {"pending", "completed"}}

\* TodoService.update_task: the provided fields are set on the row (the
\* updated_at it also sets is not a field of the model's rows)
TodoService_update_task(ts, user_id, task_id, task_update, now) ==
    LET db_task == get_task_by_id_and_user(ts, user_id, task_id)
    IN  IF ~db_task.found THEN [tasks |-> ts, res |-> [found |-> FALSE]]
        ELSE LET row == [f \in DOMAIN db_task.task |->
                            IF f \in DOMAIN task_update THEN task_update[f]
                            ELSE db_task.task[f]]
             IN  [tasks |-> [ts EXCEPT ![task_id] = row],
                  res |-> [found |-> TRUE, id |-> task_id, task |-> row]]

\* PUT /api/{user_id}/tasks/{task_id}, after the token's user was verified
PutTask ==
    /\ call = NoCall
    /\ turn.pc = "idle"
    /\ \E user_id \in Users, task_id \in TaskIds, task_update \in TaskUpdates,
          now \in Clock :
         LET out == TodoService_update_task(tasks, user_id, task_id, task_update, now)
         IN  /\ tasks' = out.tasks
             /\ call' = [op |-> "put_task", user_id |-> user_id, task_id |-> task_id,
                         task_update |-> task_update]
             /\ result' = out.res
             /\ before' = tasks
             /\ UNCHANGED <<nextId, listed, turn, deleted, chatVars>>

\* The bodies of POST /api/{user_id}/tasks that pass the validation of
\* TaskCreate, the default of status filled in: title and status, no more
TaskCreates == [title : Titles, status : {"pending", "completed"}]

\* TodoService.create_task.  Line 23 reads task_create.completed: reading an
\* attribute the object does not have raises AttributeError, before anything
\* is added to the session.
TodoService_create_task(ts, nid, user_id, task_create) ==
    IF "completed" \notin DOMAIN task_create
    THEN [tasks |-> ts, nextId |-> nid, res |-> Raised("AttributeError")]
    ELSE LET db_task == [user_id |-> user_id, title |-> task_create.title,
                         status |-> task_create.status, completed_at |-> None]
         IN  [tasks |-> ts @@ (nid :> db_task), nextId |-> nid + 1,
              res |-> [id |-> nid, task |-> db_task]]

\* POST /api/{user_id}/tasks
PostTask ==
    /\ call = NoCall
    /\ turn.pc = "idle"
    /\ \E user_id \in Users, current_user_id \in Users, task \in TaskCreates :
         LET out == IF current_user_id # user_id
                    THEN [tasks |-> tasks, nextId |-> nextId,
                          res |-> [status |-> 403,
                                   detail |-> "Not authorized to create tasks for this user"]]
                    ELSE TodoService_create_task(tasks, nextId, user_id, task)
         IN  /\ out.nextId <= MaxTasks + 1
             /\ tasks' = out.tasks
             /\ nextId' = out.nextId
             /\ call' = [op |-> "post_task", user_id |-> user_id,
                         current_user_id |-> current_user_id, task |-> task]
             /\ result' = out.res
             /\ before' = tasks
             /\ UNCHANGED <<listed, turn, deleted, chatVars>>

\* TodoService.toggle_task_completion.  Line 78 reads db_task.completed, which
\* is no attribute of a Task: AttributeError, before anything is written.
TodoService_toggle_task_completion(ts, user_id, task_id) ==
    LET db_task == get_task_by_id_and_user(ts, user_id, task_id)
    IN  IF ~db_task.found THEN [tasks |-> ts, res |-> [found |-> FALSE]]
        ELSE IF "completed" \notin DOMAIN db_task.task
        THEN [tasks |-> ts, res |-> Raised("AttributeError")]
        ELSE LET row == [db_task.task EXCEPT !.completed = ~@]
             IN  [tasks |-> [ts EXCEPT ![task_id] = row],
                  res |-> [found |-> TRUE, id |-> task_id, task |-> row]]

\* PATCH /api/{user_id}/tasks/{task_id}/complete
PatchTask ==
    /\ call = NoCall
    /\ turn.pc = "idle"
    /\ \E user_id \in Users, current_user_id \in Users, task_id \in TaskIds :
         LET out == IF current_user_id # user_id
                    THEN [tasks |-> tasks,
                          res |-> [status |-> 403,
                                   detail |-> "Not authorized to access these tasks"]]
                    ELSE TodoService_toggle_task_completion(tasks, user_id, task_id)
             db_task == out.res
         IN  /\ tasks' = out.tasks
             /\ call' = [op |-> "patch_task", user_id |-> user_id,
                         current_user_id |-> current_user_id, task_id |-> task_id]
             /\ result' = IF ~IsRaised(db_task) /\ "found" \in DOMAIN db_task
                             /\ ~db_task.found
                          THEN [status |-> 404, detail |-> "Task not found"]
                          ELSE db_task
             /\ before' = tasks
             /\ UNCHANGED <<nextId, listed, turn, deleted, chatVars>>

NextRest == Next \/ PutTask \/ PostTask \/ PatchTask

SpecRest == Init /\ [][NextRest]_vars

-----------------------------------------------------------------------------
(* The orchestrator: TodoChatOrchestrator.process_message                  *)
(* (src/agents/todo_orchestrator.py).  One activation is the record `turn`:*)
(* the provider's answer, the position in the tool loop and the two lists  *)
(* the loop fills.  Its field `dispatched` is history: every call made on  *)
(* the executor, with the table it found and what the call returned.       *)

\* The argument payload of a tool call that json.loads cannot turn into a dict
BadJson == [malformed |-> TRUE]

\* What the model may answer: any tool name, with arguments of its choosing,
\* a user_id of its choosing included.
ModelArgs(tool) ==
    CASE tool = "add_task" ->
            {[title |-> t] : t \in Titles}
            \cup {[user_id |-> "u1", title |-> <<"b">>],
                  [title |-> <<"b">>, tool_name |-> "list_tasks"]}
      [] tool = "list_tasks" ->
            {<<>>, [user_id |-> "u1", status_filter |-> "pending"]}
      [] tool = "complete_task" ->
            {[user_id |-> "u1", task_id |-> IntArg(1)], BadJson}
      [] tool = "delete_task" ->
            {[user_id |-> "u1", task_id |-> IntArg(1)]}
      [] tool = "update_task" ->
            {[user_id |-> "u1", task_id |-> IntArg(1), title |-> <<"b">>]}
      [] OTHER -> {<<>>}

ModelCalls == UNION {{[name |-> n, arguments |-> a] : a \in ModelArgs(n)} : n \in ToolNames}

RECURSIVE SeqsUpTo(_, _)
SeqsUpTo(S, n) ==
    IF n = 0 THEN {<<>>}
    ELSE LET shorter == SeqsUpTo(S, n - 1)
         IN  shorter \cup {Append(q, x) : q \in {r \in shorter : Len(r) = n - 1}, x \in S}

Contents == {"", "Done."}

\* The provider's answers: response.choices[0].message
ModelAnswers ==
    {[content |-> c, tool_calls |-> q] :
        c \in Contents, q \in SeqsUpTo(ModelCalls, MaxCalls)}

\* Mutant: user_id is set only when the model gave none (setdefault)
WithUserIdDefault(function_args, user_id) ==
    [k \in DOMAIN function_args \cup {"user_id"} |->
        IF k \in DOMAIN function_args THEN function_args[k] ELSE user_id]

\* function_args["user_id"] = user_id: insert or overwrite
WithUserId(function_args, user_id) ==
    [k \in DOMAIN function_args \cup {"user_id"} |->
        IF k = "user_id" THEN user_id ELSE function_args[k]]

\* " ".join(responses)
RECURSIVE Join(_)
Join(responses) ==
    IF responses = <<>> THEN ""
    ELSE IF Len(responses) = 1 THEN responses[1]
    ELSE responses[1] \o " " \o Join(Tail(responses))

\* Lines 108-122: the reply synthesized from the tool results
Synthesize(tool_results) ==
    LET success_results == SelectSeq(tool_results, LAMBDA r : r.success)
        error_results == SelectSeq(tool_results, LAMBDA r : ~r.success)
        ok == [i \in 1..Len(success_results) |->
                  IF "message" \in DOMAIN success_results[i]
                  THEN success_results[i].message
                  ELSE "Operation completed successfully"]
        bad == [i \in 1..Len(error_results) |->
                  "Error: " \o (IF "message" \in DOMAIN error_results[i]
                                THEN error_results[i].message
                                ELSE "Operation failed")]
    IN  Join(ok \o bad)

\* Mutant: the tool results are preferred to the model's own text
FinalResponseResultsFirst(content, tool_results) ==
    IF tool_results # <<>> THEN Synthesize(tool_results)
    ELSE IF content # "" THEN content
    ELSE "I've processed your request."

\* Lines 104-124: the reply text
FinalResponse(content, tool_results) ==
    IF content # "" THEN content
    ELSE IF tool_results # <<>> THEN Synthesize(tool_results)
    ELSE "I've processed your request."

\* process_message has raised `exception` to its caller.  History fields:
\* `asked`, the tool calls the provider returned (none when the provider call
\* itself failed), and `dispatched`, the calls made on the executor.
RaisedTurn(user_id, exception, asked, dispatched) ==
    [pc |-> "raised", user_id |-> user_id, exception |-> exception,
     asked |-> asked, dispatched |-> dispatched]

\* Mutant: the result and the name are put at the front of the lists
CollectFirst(t, function_name, res) ==
    [t EXCEPT !.i = @ + 1,
              !.tool_results = <<res>> \o @,
              !.tool_calls_made = <<function_name>> \o @]

\* Lines 100-101: tool_results.append(result); tool_calls_made.append(name)
Collect(t, function_name, res) ==
    [t EXCEPT !.i = @ + 1,
              !.tool_results = Append(@, res),
              !.tool_calls_made = Append(@, function_name)]

\* Lines 50-55
system_message ==
    [role |-> "system",
     content |-> "You are a helpful todo list assistant. You can help users manage their tasks by adding, listing, updating, completing, or deleting tasks.\n            Always use the available functions to perform these operations.\n            Be concise and friendly in your responses."]

\* Lines 46-69: the `messages` handed to the provider: the instruction, the
\* context reduced to role and content, the current message of the user
Prompt(message, conversation_context) ==
    <<system_message>>
    \o [k \in 1..Len(conversation_context) |->
           [role |-> conversation_context[k].role,
            content |-> conversation_context[k].content]]
    \o <<[role |-> "user", content |-> message]>>

\* Lines 75-86: the provider answers (or the call fails and the fault
\* propagates to the caller of process_message).
ProviderCall(user_id, answers) ==
    /\ turn.pc = "idle"
    /\ call = NoCall
    /\ \/ \E response_message \in answers :
            turn' = [pc |-> "tools", user_id |-> user_id,
                     content |-> response_message.content,
                     tool_calls |-> response_message.tool_calls, i |-> 1,
                     tool_calls_made |-> <<>>, tool_results |-> <<>>,
                     dispatched |-> <<>>]
       \/ turn' = RaisedTurn(user_id, "ProviderError", <<>>, <<>>)
    /\ before' = tasks
    /\ UNCHANGED <<tasks, nextId, call, result, listed, deleted>>

\* process_message is called for some user
BeginTurn ==
    /\ \E user_id \in Users : ProviderCall(user_id, ModelAnswers)
    /\ UNCHANGED chatVars

\* Lines 90-101: one iteration of the loop over tool_calls
ToolStep ==
    /\ turn.pc = "tools"
    /\ turn.i <= Len(turn.tool_calls)
    /\ LET tool_call == turn.tool_calls[turn.i]
           function_name == tool_call.name
       IN  IF tool_call.arguments = BadJson
           THEN /\ turn' = RaisedTurn(turn.user_id, "JSONDecodeError",
                                       turn.tool_calls, turn.dispatched)
                /\ before' = tasks
                /\ UNCHANGED <<tasks, nextId, deleted>>
           ELSE LET function_args == WithUserId(tool_call.arguments, turn.user_id)
                IN  \E env \in Envs(function_name, function_args) :
                      LET out == execute_tool(tasks, nextId, function_name,
                                              function_args, env)
                      IN  /\ out.nextId <= MaxTasks + 1
                          /\ tasks' = out.tasks
                          /\ nextId' = out.nextId
                          /\ before' = tasks
                          /\ deleted' = deleted \cup
                                 DeletedBy(function_name, function_args, out.res)
                          /\ LET sent == Append(turn.dispatched,
                                                 [name |-> function_name,
                                                  kwargs |-> function_args,
                                                  res |-> out.res,
                                                  table |-> tasks,
                                                  after |-> out.tasks])
                             IN  IF IsRaised(out.res)
                                 THEN turn' = RaisedTurn(turn.user_id, out.res.exception,
                                                         turn.tool_calls, sent)
                                 ELSE turn' = [Collect(turn, function_name, out.res)
                                                 EXCEPT !.dispatched = sent]
    /\ UNCHANGED <<call, result, listed, chatVars>>

\* Lines 103-130: the reply is composed and returned
ComposeReply ==
    /\ turn.pc = "tools"
    /\ turn.i > Len(turn.tool_calls)
    /\ turn' = [pc |-> "done", user_id |-> turn.user_id,
                response |-> FinalResponse(turn.content, turn.tool_results),
                tool_calls |-> turn.tool_calls_made,
                tool_results |-> turn.tool_results,
                \* history: the provider's answer and the executor calls made
                content |-> turn.content, asked |-> turn.tool_calls,
                dispatched |-> turn.dispatched]
    /\ UNCHANGED <<tasks, nextId, call, result, listed, before, deleted, chatVars>>

\* The caller of process_message has the reply, or the exception
EndTurn ==
    /\ turn.pc \in {"done", "raised"}
    /\ turn' = IdleTurn
    /\ before' = <<>>
    /\ UNCHANGED <<tasks, nextId, call, result, listed, deleted, chatVars>>

NextTurn == BeginTurn \/ ToolStep \/ ComposeReply \/ EndTurn

SpecTurn == Init /\ [][NextTurn]_vars

-----------------------------------------------------------------------------
(* The chat endpoint: chat_endpoint (src/chat.py).  One activation is the  *)
(* record chats[r].  Each action is the code up to its next commit, query  *)
(* or await, so that requests interleave at every access to the tables.   *)
(* The orchestrator is one object on one event loop and nothing in         *)
(* process_message suspends after the provider has answered, so one        *)
(* activation at a time is past the provider call: it owns `turn`, and no  *)
(* other activation takes a step until it has responded (the tool loop     *)
(* touches the task table only, the other steps never do).  Requests are   *)
(* numbered in the order in which they arrive.                             *)

\* ChatRequest.conversation_id: Optional[int]
NoConversationId == [given |-> FALSE]
ConversationIds ==
    {NoConversationId} \cup {[given |-> TRUE, id |-> n] : n \in 0..(MaxRequests - 1)}

\* ChatRequest.message
Texts == {"hi", "add b"}

\* Line 50, `if request.conversation_id:` : neither None nor 0
Truthy(conversation_id) == conversation_id.given /\ conversation_id.id # 0

\* An Optional[str] column without a value, and str(x) of a Python list
Null == [null |-> TRUE]
PyStr(x) == [str_of |-> x]

\* What the model may answer in a chat: text alone, a tool call, a tool call
\* and then one whose arguments are not JSON
ChatModelAnswers ==
    LET add == [name |-> "add_task", arguments |-> [title |-> <<"b">>]]
        bad == [name |-> "complete_task", arguments |-> BadJson]
    IN  {[content |-> "Done.", tool_calls |-> <<>>],
         [content |-> "", tool_calls |-> <<add>>],
         [content |-> "", tool_calls |-> <<add, bad>>]}

\* Message.timestamp, default_factory=datetime.utcnow: the clock has not gone
\* back since the latest stored message, and may not have advanced either
Readings(ms) ==
    IF DOMAIN ms = {} THEN {1}
    ELSE LET latest == CHOOSE t \in {ms[i].timestamp : i \in DOMAIN ms} :
                          \A i \in DOMAIN ms : ms[i].timestamp <= t
         IN  {latest, latest + 1}

\* Mutant: the row takes the place of the latest row
InsertOver(ms, row) ==
    IF DOMAIN ms = {} THEN (1 :> row)
    ELSE [ms EXCEPT ![Cardinality(DOMAIN ms)] = row]

\* session.add(row); session.commit(): the row gets the next id
Insert(ms, row) == ms @@ ((Cardinality(DOMAIN ms) + 1) :> row)

\* Lines 83-87: the conversation's messages ordered by timestamp; rows of
\* equal timestamp come in any order
History(ms, conversation_id) ==
    LET ids == {i \in DOMAIN ms : ms[i].conversation_id = conversation_id}
    IN  {o \in Orderings(ids) :
            \A k \in 1..(Len(o) - 1) : ms[o[k]].timestamp <= ms[o[k + 1]].timestamp}

\* Lines 90-95
FormattedHistory(ms, conversation_history) ==
    [k \in 1..Len(conversation_history) |->
        [role |-> ms[conversation_history[k]].role,
         content |-> ms[conversation_history[k]].content]]

\* Lines 41-70: the request is authorized, the conversation found or created.
\* `lookup` is history: what the table held for the id the request named;
\* so are `history` (the ids of the rows the query of lines 83-87 returned,
\* in its order) and `prompt` (the messages the provider was called with).
ChatOpen ==
    \E r \in ReqIds, user_id \in Users, current_user_id \in Users,
       conversation_id \in ConversationIds, message \in Texts :
      LET request == [pc |-> "opened", user_id |-> user_id,
                      current_user_id |-> current_user_id,
                      conversation_id |-> conversation_id, message |-> message,
                      conversation |-> 0, status |-> 0, detail |-> "",
                      response |-> "", tool_calls |-> <<>>, context |-> <<>>,
                      history |-> <<>>, prompt |-> <<>>,
                      lookup |-> IF ~conversation_id.given THEN "none"
                                 ELSE IF conversation_id.id \notin DOMAIN conversations
                                 THEN "missing"
                                 ELSE IF conversations[conversation_id.id].user_id
                                            # user_id
                                 THEN "foreign" ELSE "own",
                      created |-> FALSE, stored |-> <<>>,
                      provider_calls |-> 0, executed |-> 0]
          Rejected(status, detail) ==
              /\ chats' = [chats EXCEPT ![r] =
                              [request EXCEPT !.pc = "responded", !.status = status,
                                              !.detail = detail]]
              /\ UNCHANGED conversations
      IN  /\ chats[r].pc = "new"
          /\ \A q \in 1..(r - 1) : chats[q].pc # "new"
          /\ turn.pc = "idle"
          /\ IF current_user_id # user_id
             THEN Rejected(403, "Access denied: You can only access your own chat")
             ELSE IF Truthy(conversation_id)
             THEN IF conversation_id.id \notin DOMAIN conversations
                  THEN Rejected(404, "Conversation with ID "
                                     \o ToString(conversation_id.id) \o " not found")
                  ELSE IF conversations[conversation_id.id].user_id # user_id
                  THEN Rejected(403,
                           "Access denied: You can only access your own conversations")
                  ELSE /\ chats' = [chats EXCEPT ![r] =
                               [request EXCEPT !.conversation = conversation_id.id]]
                       /\ UNCHANGED conversations
             ELSE LET id == Cardinality(DOMAIN conversations) + 1
                  IN  /\ conversations' = conversations @@ (id :> [user_id |-> user_id,
                                                                  updated_at |-> 0])
                      /\ chats' = [chats EXCEPT ![r] =
                              [request EXCEPT !.conversation = id, !.created = TRUE]]
          /\ UNCHANGED <<tasks, nextId, call, result, listed, turn, before, deleted,
                         messages>>

\* Lines 72-79: the user's message is stored
ChatStoreUserMessage ==
    \E r \in ReqIds :
      /\ chats[r].pc = "opened"
      /\ turn.pc = "idle"
      /\ \E timestamp \in Readings(messages) :
           LET user_message == [conversation_id |-> chats[r].conversation,
                                role |-> "user", content |-> chats[r].message,
                                tool_calls |-> Null, tool_responses |-> Null,
                                timestamp |-> timestamp]
           IN  /\ messages' = Insert(messages, user_message)
               /\ chats' = [chats EXCEPT ![r].pc = "stored",
                                         ![r].stored = <<Cardinality(DOMAIN messages')>>]
      /\ UNCHANGED <<tasks, nextId, call, result, listed, turn, before, deleted,
                     conversations>>

\* Lines 81-103: the history is read and process_message is called with all
\* of it but the last entry: the provider call is awaited
ChatReadHistory ==
    \E r \in ReqIds :
      /\ chats[r].pc = "stored"
      /\ turn.pc = "idle"
      /\ \E conversation_history \in History(messages, chats[r].conversation) :
           LET formatted_history == FormattedHistory(messages, conversation_history)
           IN  chats' = [chats EXCEPT
                   ![r].pc = "awaiting",
                   ![r].history = conversation_history,
                   ![r].context = SubSeq(formatted_history, 1,
                                         Len(formatted_history) - 1)]
      /\ UNCHANGED <<tasks, nextId, call, result, listed, turn, before, deleted,
                     conversations, messages>>

\* todo_orchestrator.py 75-86, for the request: the provider answers or fails
ChatProviderCall ==
    \E r \in ReqIds :
      /\ chats[r].pc = "awaiting"
      /\ ProviderCall(chats[r].user_id, ChatModelAnswers)
      /\ chats' = [chats EXCEPT ![r].pc = "processing",
                                ![r].prompt = Prompt(chats[r].message,
                                                     chats[r].context),
                                ![r].provider_calls = @ + 1]
      /\ UNCHANGED <<conversations, messages>>

\* Mutant: a failed turn is stored as an assistant message too
AssistantMessageAlways(conversation_id, t, timestamp) ==
    IF t.pc = "raised"
    THEN <<[conversation_id |-> conversation_id, role |-> "assistant",
            content |-> "Error processing message: " \o t.exception,
            tool_calls |-> Null, tool_responses |-> Null, timestamp |-> timestamp]>>
    ELSE <<[conversation_id |-> conversation_id, role |-> "assistant",
            content |-> t.response,
            tool_calls |-> IF t.tool_calls # <<>> THEN PyStr(t.tool_calls) ELSE Null,
            tool_responses |-> PyStr(t.tool_results),
            timestamp |-> timestamp]>>

\* Lines 104-117: the rows the endpoint stores once process_message has ended
\* as the turn record t says: none when it raised
AssistantMessage(conversation_id, t, timestamp) ==
    IF t.pc = "raised" THEN <<>>
    ELSE <<[conversation_id |-> conversation_id, role |-> "assistant",
            content |-> t.response,
            tool_calls |-> IF t.tool_calls # <<>> THEN PyStr(t.tool_calls) ELSE Null,
            tool_responses |-> PyStr(t.tool_results),
            timestamp |-> timestamp]>>

\* Lines 104-131: process_message has raised (HTTP 500) or returned (the
\* assistant's message is stored, the conversation touched, the reply sent)
ChatRespond ==
    \E r \in ReqIds :
      /\ chats[r].pc = "processing"
      /\ turn.pc \in {"done", "raised"}
      /\ \E timestamp \in Readings(messages) :
           LET rows == AssistantMessage(chats[r].conversation, turn, timestamp)
               request == [chats[r] EXCEPT !.pc = "responded",
                                           !.executed = Len(turn.dispatched)]
           IN  /\ messages' = IF rows = <<>> THEN messages
                              ELSE Insert(messages, rows[1])
               /\ IF turn.pc = "raised"
                  THEN /\ chats' = [chats EXCEPT ![r] =
                              [request EXCEPT
                                  !.status = 500,
                                  !.detail = "Error processing message: "
                                             \o turn.exception]]
                       /\ UNCHANGED conversations
                  ELSE /\ chats' = [chats EXCEPT ![r] =
                              [request EXCEPT
                                  !.status = 200,
                                  !.response = turn.response,
                                  !.tool_calls = turn.tool_calls,
                                  !.stored = IF rows = <<>> THEN @
                                             ELSE Append(@, Cardinality(DOMAIN messages'))]]
                       /\ conversations' =
                             [conversations EXCEPT
                                 ![chats[r].conversation].updated_at = timestamp]
      /\ turn' = IdleTurn
      /\ before' = <<>>
      /\ UNCHANGED <<tasks, nextId, call, result, listed, deleted>>

NextChat ==
    \/ ChatOpen
    \/ ChatStoreUserMessage
    \/ ChatReadHistory
    \/ ChatProviderCall
    \/ ToolStep
    \/ ComposeReply
    \/ ChatRespond

SpecChat == Init /\ [][NextChat]_vars

-----------------------------------------------------------------------------
(* Claims *)

TaskOps == {"complete_task", "delete_task", "update_task"}

\* The call in progress is tool `t` run by the executor on an integer task id
IsTaskCall(t) ==
    /\ call.op = "execute_tool"
    /\ call.tool_name = t
    /\ ToolBodyRuns(t, call.kwargs)
    /\ IsInt(call.kwargs.task_id)

\* The tool body of the call in progress failed on the database
DbFailed == ~IsRaised(result) /\ ~result.success /\ result.message \in
                {"Error adding task: " \o DbError, "Error listing tasks: " \o DbError,
                 "Error completing task: " \o DbError, "Error deleting task: " \o DbError,
                 "Error updating task: " \o DbError}

\* C1: while process_message runs for caller U, whatever tool names and
\* arguments (a user_id included) the model chose, a tool step leaves every
\* task of another user as it was (not modified, not deleted), creates tasks
\* only for U, and puts only tasks of U into a result.
C1_AuthorizationOverwrite ==
    turn.pc \in {"tools", "done", "raised"} =>
        /\ \A id \in DOMAIN before :
              before[id].user_id # turn.user_id =>
                  id \in DOMAIN tasks /\ tasks[id] = before[id]
        /\ \A id \in DOMAIN tasks \ DOMAIN before :
              tasks[id].user_id = turn.user_id
        /\ (turn.pc = "tools" /\ turn.i > 1) =>
              LET r == turn.tool_results[turn.i - 1]   \* the step's result
                  c == turn.tool_calls[turn.i - 1]
              IN  /\ "tasks" \in DOMAIN r =>
                       \A j \in 1..Len(r.tasks) :
                          /\ r.tasks[j].id \in DOMAIN before
                          /\ before[r.tasks[j].id].user_id = turn.user_id
                  /\ (r.success /\ c.name \in TaskOps) =>
                       before[c.arguments.task_id.int].user_id = turn.user_id

\* C1 witness: a turn of u2 in which the model asked to delete u1's task 1
\* under user_id "u1", and the call has been executed and denied.
C1_Witness ==
    /\ turn.pc = "tools"
    /\ turn.user_id = "u2"
    /\ turn.i = 2
    /\ turn.tool_calls[1] = [name |-> "delete_task",
                             arguments |-> [user_id |-> "u1", task_id |-> IntArg(1)]]
    /\ 1 \in DOMAIN tasks
    /\ tasks[1].user_id = "u1"
    /\ ~turn.tool_results[1].success

\* C2: complete_task, update_task and delete_task called with a user_id that
\* is not the task's owner return success = false and leave the whole table
\* (that task and every other) unchanged.
C2_CrossUserRejected ==
    \A t \in TaskOps :
       (/\ IsTaskCall(t)
        /\ call.kwargs.task_id.int \in DOMAIN before
        /\ before[call.kwargs.task_id.int].user_id # call.kwargs.user_id)
       => /\ ~IsRaised(result)
          /\ result.success = FALSE
          /\ tasks = before

\* C2 witness: a denied update of another user's task, a second task present
C2_Witness ==
    /\ IsTaskCall("update_task")
    /\ call.kwargs.task_id.int \in DOMAIN before
    /\ before[call.kwargs.task_id.int].user_id # call.kwargs.user_id
    /\ before[call.kwargs.task_id.int].title # call.kwargs.title
    /\ Cardinality(DOMAIN tasks) = 2
    /\ result.message = "Access denied: You can only modify your own tasks"

\* The same call of the executor on a table without row `id`
Without(ts, id) == [i \in DOMAIN ts \ {id} |-> ts[i]]

\* C3: an operation on an id owned by another user returns what the same
\* operation returns when the id does not exist.
C3_ExistenceNotLeaked ==
    /\ \A t \in TaskOps :
          (/\ IsTaskCall(t)
           /\ ~DbFailed
           /\ call.kwargs.task_id.int \in DOMAIN before
           /\ before[call.kwargs.task_id.int].user_id # call.kwargs.user_id)
          => result = execute_tool(Without(before, call.kwargs.task_id.int), nextId,
                                   t, call.kwargs, NoEnv).res
    /\ (/\ call.op = "get_task"
        /\ call.task_id \in DOMAIN before
        /\ before[call.task_id].user_id # call.user_id)
       => result = get_task_by_id_and_user(Without(before, call.task_id),
                                           call.user_id, call.task_id)

\* C4: after add_task(user, title) has succeeded, list_tasks(user, "all")
\* holds the returned task_id exactly once, pending, with the given title,
\* in whatever order the rows come back.
C4_AddThenList ==
    (/\ call.op = "execute_tool"
     /\ call.tool_name = "add_task"
     /\ ~IsRaised(result)
     /\ result.success)
    => \A order \in Orderings(TaskIds) :
          LET res == execute_tool(tasks, nextId, "list_tasks",
                                  [user_id |-> call.kwargs.user_id,
                                   status_filter |-> "all"],
                                  [NoEnv EXCEPT !.order = order]).res
              hits == {j \in 1..Len(res.tasks) : res.tasks[j].id = result.task_id}
          IN  /\ res.success
              /\ Cardinality(hits) = 1
              /\ \A j \in hits : /\ res.tasks[j].status = "pending"
                                 /\ res.tasks[j].title = call.kwargs.title
              /\ res.count = Len(res.tasks)

\* C4 witness: a successful add into a table that already holds a task of
\* the same user and the same title
C4_Witness ==
    /\ call.op = "execute_tool"
    /\ call.tool_name = "add_task"
    /\ ~IsRaised(result)
    /\ result.success
    /\ \E id \in DOMAIN before :
          /\ before[id].user_id = call.kwargs.user_id
          /\ before[id].title = call.kwargs.title
          /\ before[id].status = "completed"

\* C5: complete_task by the owner on a task already completed returns
\* success = true unless the database itself fails, and in every case the
\* status is "completed", as it was after the first call.
C5_CompleteIdempotent ==
    (/\ IsTaskCall("complete_task")
     /\ call.kwargs.task_id.int \in DOMAIN before
     /\ before[call.kwargs.task_id.int].user_id = call.kwargs.user_id
     /\ before[call.kwargs.task_id.int].status = "completed")
    => /\ ~IsRaised(result)
       /\ result.success \/ DbFailed
       /\ call.kwargs.task_id.int \in DOMAIN tasks
       /\ tasks[call.kwargs.task_id.int].status = before[call.kwargs.task_id.int].status

\* C5 witness: a second, successful complete_task on a completed task
C5_Witness ==
    /\ IsTaskCall("complete_task")
    /\ call.kwargs.task_id.int \in DOMAIN before
    /\ before[call.kwargs.task_id.int].status = "completed"
    /\ result.success
    /\ tasks[call.kwargs.task_id.int].status = "completed"

\* C6: once delete_task has returned success for an id, no lookup by any
\* user finds the id again (get, list, complete, update, delete), and a
\* further delete_task returns a result with success = false, no exception.
C6_DeletedStaysDeleted ==
    /\ \A id \in deleted : id \notin DOMAIN tasks
    /\ (call.op = "get_task" /\ call.task_id \in deleted) => ~result.found
    /\ \A t \in TaskOps :
          (/\ IsTaskCall(t)
           /\ call.kwargs.task_id.int \in deleted
           /\ call.kwargs.task_id.int \notin DOMAIN before)
          => ~IsRaised(result) /\ result.success = FALSE
    /\ (/\ call.op \in {"execute_tool", "search_tasks"}
        /\ ~IsRaised(result)
        /\ "tasks" \in DOMAIN result)
       => \A j \in 1..Len(result.tasks) : result.tasks[j].id \notin deleted

\* C6 witness: delete_task again on an id already deleted: not found
C6_Witness ==
    /\ IsTaskCall("delete_task")
    /\ call.kwargs.task_id.int \in deleted
    /\ call.kwargs.task_id.int \notin DOMAIN before
    /\ result = NotFoundResult(call.kwargs.task_id.int)

\* The filter a listing method of the TaskQueryAgent stands for
FilterOf(c) ==
    CASE c.method = "list_tasks" -> c.status_filter
      [] c.method = "get_pending_tasks" -> "pending"
      [] c.method = "get_completed_tasks" -> "completed"
      [] c.method = "get_all_tasks" -> "all"

\* C26: list_tasks(user, f) returns exactly the tasks of user whose status
\* is f for f = pending or completed, and all of the user's tasks for
\* f = "all"; get_pending_tasks, get_completed_tasks and get_all_tasks fix
\* f; count is the number of tasks returned, each task is there once as
\* (id, title, status) of its row, no task of another user is in the result,
\* and the table is as before.  A listing fails only when the database does.
C26_ListReturnsExactlyTheFiltered ==
    call.op = "query_tasks" =>
        /\ ~IsRaised(result)
        /\ tasks = before
        /\ IF result.success
           THEN LET wanted == {id \in DOMAIN before :
                                 /\ before[id].user_id = call.user_id
                                 /\ \/ FilterOf(call) = "all"
                                    \/ before[id].status = FilterOf(call)}
                IN  /\ {result.tasks[j].id : j \in 1..Len(result.tasks)} = wanted
                    /\ Len(result.tasks) = Cardinality(wanted)
                    /\ \A j \in 1..Len(result.tasks) :
                          result.tasks[j] =
                             [id |-> result.tasks[j].id,
                              title |-> before[result.tasks[j].id].title,
                              status |-> before[result.tasks[j].id].status]
                    /\ result.count = Len(result.tasks)
           ELSE DbFailed

\* C26 witness: get_pending_tasks returns the one pending task of the user
\* and leaves out a pending task of another user
C26_Witness ==
    /\ call.op = "query_tasks"
    /\ call.method = "get_pending_tasks"
    /\ result.success
    /\ result.count = 1
    /\ \E id \in DOMAIN tasks :
          /\ tasks[id].user_id # call.user_id
          /\ tasks[id].status = "pending"

\* `title` contains `term` when case is ignored: at some offset every
\* character of term equals the character of title up to case
ContainsIgnoringCase(title, term) ==
    \E k \in 0..(Len(title) - Len(term)) :
       \A j \in 1..Len(term) : LowerChar(title[k + j]) = LowerChar(term[j])

\* C7: when the underlying list succeeds, search_tasks returns exactly the
\* tasks of that list whose title contains the term case-insensitively, in
\* the list's order, with count = the number returned; when the list fails
\* it returns the failed result unchanged.
C7_SearchFilters ==
    call.op = "search_tasks" =>
        /\ \E env \in Envs("list_tasks", [user_id |-> call.user_id,
                                          status_filter |-> call.status_filter]) :
              listed = execute_tool(before, nextId, "list_tasks",
                                    [user_id |-> call.user_id,
                                     status_filter |-> call.status_filter], env).res
        /\ IF listed.success
           THEN /\ result.success
                /\ result.tasks =
                      SelectSeq(listed.tasks,
                                LAMBDA task : ContainsIgnoringCase(task.title, call.search_term))
                /\ result.count = Len(result.tasks)
           ELSE result = listed

\* C7 witness: a search whose term matches one listed title only when case
\* is ignored, and drops another listed task
C7_Witness ==
    /\ call.op = "search_tasks"
    /\ listed.success
    /\ Len(listed.tasks) = 2
    /\ Len(result.tasks) = 1
    /\ call.search_term = <<"a", "B">>
    /\ result.tasks[1].title = <<"A", "b">>

\* C8: execute_tool entered with a name outside the registry returns
\* {success: false, message: "Tool '<name>' not found"}; and with such a
\* name, however the keywords are, the table is as before: no tool body ran.
C8_UnknownTool ==
    (call.op = "execute_tool" /\ call.tool_name \notin RegisteredTools)
    => /\ tasks = before
       /\ "tool_name" \notin DOMAIN call.kwargs =>
             result = [success |-> FALSE,
                       message |-> "Tool '" \o call.tool_name \o "' not found"]

\* C8 witness: an unregistered name called with bindable keywords on a
\* table that holds a task the keywords name
C8_Witness ==
    /\ call.op = "execute_tool"
    /\ call.tool_name = "archive_task"
    /\ "task_id" \in DOMAIN call.kwargs
    /\ IsInt(call.kwargs.task_id)
    /\ call.kwargs.task_id.int \in DOMAIN tasks
    /\ result.message = "Tool 'archive_task' not found"

\* C9: for every registered tool name and every set of keyword arguments,
\* execute_tool returns a result (success = false with a message when the
\* tool raised): no exception reaches the caller.
C9_NoExceptionEscapes ==
    (call.op = "execute_tool" /\ call.tool_name \in RegisteredTools)
    => /\ ~IsRaised(result)
       /\ result.success \in BOOLEAN
       /\ ~ToolBodyRuns(call.tool_name, call.kwargs) =>
             (result.success = FALSE /\ "message" \in DOMAIN result)

\* A result returned to a caller of the executor or of search_tasks
IsReturned == call.op \in {"execute_tool", "search_tasks"} /\ ~IsRaised(result)

\* C10 as claimed: every returned result has a boolean success and a string
\* message.
C10_UniformEnvelope ==
    IsReturned =>
        /\ "success" \in DOMAIN result /\ result.success \in BOOLEAN
        /\ "message" \in DOMAIN result /\ result.message \in STRING

\* C10 as amended: every returned result has a boolean success; it has a
\* string message unless it is the successful result of list_tasks or of
\* search_tasks, which has tasks and count and no message.
C10_EnvelopeButList ==
    IsReturned =>
        /\ "success" \in DOMAIN result /\ result.success \in BOOLEAN
        /\ IF /\ result.success
              /\ \/ call.op = "search_tasks"
                 \/ call.tool_name = "list_tasks"
           THEN /\ DOMAIN result = {"success", "tasks", "count"}
                /\ result.count = Len(result.tasks)
           ELSE "message" \in DOMAIN result /\ result.message \in STRING

\* C10 witness: a successful list_tasks result, which has no message
C10_Witness ==
    /\ call.op = "execute_tool"
    /\ call.tool_name = "list_tasks"
    /\ ~IsRaised(result)
    /\ result.success
    /\ "message" \notin DOMAIN result
    /\ Len(result.tasks) = 2

(***************************************************************************)
(* The turn: what the orchestrator does with the provider's answer.        *)
(***************************************************************************)

\* The provider has answered and process_message has ended, by returning or
\* by raising.
TurnEnded ==
    \/ turn.pc = "done"
    \/ turn.pc = "raised" /\ turn.exception # "ProviderError"

\* C11 as claimed: a fault of one tool invocation never aborts the turn: once
\* the provider has answered, process_message does not raise, and the turn
\* it returns has executed every invocation the model asked for.
C11_FaultNeverAborts ==
    /\ ~(turn.pc = "raised" /\ turn.exception # "ProviderError")
    /\ turn.pc = "done" => Len(turn.dispatched) = Len(turn.asked)

\* The texts of the results with the given outcome, in order; a result
\* without a message stands for the text `fallback`.
RECURSIVE MessagesOf(_, _, _)
MessagesOf(results, succeeded, fallback) ==
    IF results = <<>> THEN <<>>
    ELSE LET r == Head(results)
             rest == MessagesOf(Tail(results), succeeded, fallback)
         IN  IF r.success # succeeded THEN rest
             ELSE IF "message" \in DOMAIN r THEN <<r.message>> \o rest
             ELSE <<fallback>> \o rest

RECURSIVE Prefixed(_, _)
Prefixed(prefix, texts) ==
    IF texts = <<>> THEN <<>>
    ELSE <<prefix \o Head(texts)>> \o Prefixed(prefix, Tail(texts))

RECURSIVE Spaced(_)
Spaced(texts) ==
    IF Len(texts) = 0 THEN ""
    ELSE IF Len(texts) = 1 THEN texts[1]
    ELSE Spaced(SubSeq(texts, 1, Len(texts) - 1)) \o " " \o texts[Len(texts)]

\* The successes' texts, then the failures' texts each after "Error: ".
SynthesizedReply(results) ==
    Spaced(MessagesOf(results, TRUE, "Operation completed successfully")
           \o Prefixed("Error: ", MessagesOf(results, FALSE, "Operation failed")))

\* The results of the executor calls of the turn, in the order of the calls
ResultsInCallOrder == [k \in 1..Len(turn.dispatched) |-> turn.dispatched[k].res]

\* C12: the reply of a returned turn is the model's text when that is not
\* empty; otherwise, when a tool call was made, the text synthesized from the
\* tool results; otherwise "I've processed your request."; it is never empty.
C12_ReplySelection ==
    turn.pc = "done" =>
        /\ turn.content # "" => turn.response = turn.content
        /\ turn.content = "" /\ Len(turn.dispatched) >= 1 =>
              /\ turn.response = SynthesizedReply(turn.tool_results)
              /\ turn.response # "I've processed your request."
        /\ turn.content = "" /\ Len(turn.dispatched) = 0 =>
              turn.response = "I've processed your request."
        /\ turn.response # ""

\* C12 witness: the model sent text together with two tool calls, and the
\* reply is the model's text
C12_Witness ==
    /\ turn.pc = "done"
    /\ turn.content = "Done."
    /\ Len(turn.dispatched) = 2
    /\ turn.response = "Done."

\* C13 as claimed: the synthesized reply is the message field of every
\* successful result, in call order, then the message field of every failed
\* result after "Error: ", joined by single spaces.
C13_MessageFieldsJoined ==
    turn.pc = "done" /\ turn.content = "" /\ turn.dispatched # <<>> =>
        /\ \A k \in 1..Len(turn.dispatched) :
               "message" \in DOMAIN turn.dispatched[k].res
        /\ turn.response = SynthesizedReply(ResultsInCallOrder)

\* C13 as amended: the same, where a successful result without a message
\* field (that of list_tasks) contributes "Operation completed successfully";
\* so after a failed first call and a successful list_tasks the reply is that
\* text followed by the failure's message after "Error: ".
C13_MessagesOrDefaultJoined ==
    turn.pc = "done" /\ turn.content = "" /\ turn.dispatched # <<>> =>
        /\ turn.response = SynthesizedReply(ResultsInCallOrder)
        /\ \A k \in 1..Len(turn.dispatched) :
               LET res == turn.dispatched[k].res
               IN  "message" \notin DOMAIN res =>
                       res.success /\ turn.dispatched[k].name = "list_tasks"
        /\ ( /\ Len(turn.dispatched) = 2
             /\ ~turn.dispatched[1].res.success
             /\ turn.dispatched[2].name = "list_tasks"
             /\ turn.dispatched[2].res.success )
           => turn.response = "Operation completed successfully" \o " " \o
                              "Error: " \o turn.dispatched[1].res.message

\* C13 witness: the first call failed, the second is a successful list_tasks
C13_Witness ==
    /\ turn.pc = "done"
    /\ turn.content = ""
    /\ Len(turn.dispatched) = 2
    /\ ~turn.dispatched[1].res.success
    /\ turn.dispatched[2].name = "list_tasks"
    /\ turn.dispatched[2].res.success

\* C14 as claimed: when the turn has ended, every tool invocation the model
\* returned has been dispatched to the executor exactly once, in the model's
\* order, each on the table the earlier ones left; and a returned turn has
\* tool_calls and tool_results of that length, the i-th entries being the
\* name and the result of the i-th invocation.
C14_EachDispatchedOnceInOrder ==
    TurnEnded =>
        /\ Len(turn.dispatched) = Len(turn.asked)
        /\ \A k \in 1..Len(turn.dispatched) :
               /\ turn.dispatched[k].name = turn.asked[k].name
               /\ k > 1 => turn.dispatched[k].table = turn.dispatched[k - 1].after
        /\ turn.pc = "done" =>
               /\ Len(turn.tool_calls) = Len(turn.asked)
               /\ Len(turn.tool_results) = Len(turn.asked)
               /\ \A k \in 1..Len(turn.asked) :
                      /\ turn.tool_calls[k] = turn.asked[k].name
                      /\ turn.tool_results[k] = turn.dispatched[k].res

(***************************************************************************)
(* execute_action, the frame of the tools, completed_at.                   *)
(***************************************************************************)

\* The tool a supported tag stands for
ToolOfTag(action) ==
    CASE action = "add" -> "add_task"
      [] action = "update" -> "update_task"
      [] action = "delete" -> "delete_task"
      [] action = "complete" -> "complete_task"

C19_Frame ==
    /\ call.op \in {"search_tasks", "get_task"} => tasks = before
    /\ call.op = "execute_tool" =>
        LET t == call.tool_name
            target == IF "task_id" \in DOMAIN call.kwargs /\ IsInt(call.kwargs.task_id)
                      THEN {call.kwargs.task_id.int} ELSE {}
        IN  /\ \A id \in DOMAIN before \cap DOMAIN tasks :
                  /\ tasks[id].user_id = before[id].user_id
                  /\ tasks[id] # before[id] =>
                        /\ id \in target
                        /\ t \in {"update_task", "complete_task"}
                        /\ t = "update_task" =>
                              tasks[id] = [before[id] EXCEPT !.title = call.kwargs.title]
                        /\ t = "complete_task" =>
                              tasks[id].title = before[id].title
            /\ DOMAIN before \ DOMAIN tasks # {} =>
                  t = "delete_task" /\ DOMAIN before \ DOMAIN tasks = target
            /\ DOMAIN tasks \ DOMAIN before # {} =>
                  /\ t = "add_task"
                  /\ DOMAIN tasks \ DOMAIN before = {nextId - 1}
                  /\ nextId - 1 \notin deleted
                  /\ \A id \in DOMAIN before : id < nextId - 1

\* C19 witness: update_task gave a completed task a new title, next to a
\* second task
C19_Witness ==
    /\ IsTaskCall("update_task")
    /\ result.success
    /\ Cardinality(DOMAIN tasks) = 2
    /\ before[call.kwargs.task_id.int].status = "completed"
    /\ before[call.kwargs.task_id.int].title # call.kwargs.title
    /\ tasks[call.kwargs.task_id.int].title = call.kwargs.title

\* C20 as claimed: a pending task has no completed_at, and an operation of
\* the tool layer or of the REST service writes completed_at only when it
\* takes the task from pending to completed.
C20_CompletedAtOnlyOnTransition ==
    /\ \A id \in DOMAIN tasks :
          tasks[id].status = "pending" => tasks[id].completed_at = None
    /\ call # NoCall =>
          \A id \in DOMAIN before \cap DOMAIN tasks :
             tasks[id].completed_at # before[id].completed_at =>
                 before[id].status = "pending" /\ tasks[id].status = "completed"

(***************************************************************************)
(* The chat endpoint.                                                      *)
(***************************************************************************)

\* The request has been answered with HTTP 500 for a fault of the provider
ProviderFailed(r) ==
    /\ chats[r].pc = "responded"
    /\ chats[r].detail = "Error processing message: ProviderError"

\* C15: when the provider call fails, process_message raises without having
\* executed a tool and with the task table as it was; the provider is not
\* called again; the chat request is answered with HTTP 500 and has stored
\* its user message only: every assistant message in the table is the reply
\* of a request that was answered with 200.
C15_ProviderFault ==
    /\ (turn.pc = "raised" /\ turn.exception = "ProviderError") =>
           turn.dispatched = <<>> /\ tasks = before
    /\ \A r \in ReqIds :
          ProviderFailed(r) =>
              /\ chats[r].status = 500
              /\ chats[r].provider_calls = 1
              /\ chats[r].executed = 0
              /\ Len(chats[r].stored) = 1
              /\ messages[chats[r].stored[1]].role = "user"
    /\ \A i \in DOMAIN messages :
          messages[i].role = "assistant" =>
              \E r \in ReqIds : /\ chats[r].pc = "responded"
                                /\ chats[r].status = 200
                                /\ Len(chats[r].stored) = 2
                                /\ chats[r].stored[2] = i

\* C15 witness: a request failed on the provider in a conversation in which
\* an earlier request had added a task and got its reply
C15_Witness ==
    \E r \in ReqIds :
       /\ ProviderFailed(r)
       /\ DOMAIN tasks # {}
       /\ Cardinality({i \in DOMAIN messages :
                          messages[i].conversation_id = chats[r].conversation}) = 3

\* C16 as claimed: a request of a user other than the URL's, or one naming a
\* conversation that does not exist or belongs to another user, is rejected
\* (403 or 404) in a step that leaves the conversations, the messages, the
\* tasks and the orchestrator as they were, and it is over then.
C16_RejectedWithoutEffect ==
    [][\A r \in ReqIds :
          (/\ chats[r].pc = "new"
           /\ chats'[r].pc # "new"
           /\ \/ chats'[r].current_user_id # chats'[r].user_id
              \/ chats'[r].lookup \in {"missing", "foreign"})
          => /\ chats'[r].pc = "responded"
             /\ chats'[r].status \in {403, 404}
             /\ conversations' = conversations
             /\ messages' = messages
             /\ tasks' = tasks
             /\ turn' = turn]_vars

\* C17: a request answered with a reply has stored two messages in its
\* conversation, the user's with the request's text and then the
\* assistant's with the reply returned; the table holds no message but those
\* the requests stored; and no step changes or removes a stored message.
C17_AppendOnly ==
    /\ [](/\ \A r \in ReqIds :
               (chats[r].pc = "responded" /\ chats[r].status = 200) =>
                   /\ Len(chats[r].stored) = 2
                   /\ chats[r].stored[1] < chats[r].stored[2]
                   /\ LET user_message == messages[chats[r].stored[1]]
                          assistant_message == messages[chats[r].stored[2]]
                      IN  /\ user_message.role = "user"
                          /\ user_message.content = chats[r].message
                          /\ user_message.conversation_id = chats[r].conversation
                          /\ assistant_message.role = "assistant"
                          /\ assistant_message.content = chats[r].response
                          /\ assistant_message.conversation_id = chats[r].conversation
          /\ \A i \in DOMAIN messages :
               Cardinality({r \in ReqIds :
                               /\ chats[r].pc # "new"
                               /\ \E k \in 1..Len(chats[r].stored) :
                                     chats[r].stored[k] = i}) = 1)
    /\ [][\A i \in DOMAIN messages :
             i \in DOMAIN messages' /\ messages'[i] = messages[i]]_vars

\* C17 witness: two requests answered with a reply in one conversation
C17_Witness ==
    /\ \A r \in ReqIds : chats[r].pc = "responded" /\ chats[r].status = 200
    /\ chats[1].conversation = chats[2].conversation
    /\ chats[1].message # chats[2].message
    /\ Cardinality(DOMAIN messages) = 4

\* The rows of the request's conversation that the table held when the request
\* read its history, but the row of the request's own user message
EarlierRows(r) ==
    {chats[r].history[k] : k \in 1..Len(chats[r].history)} \ {chats[r].stored[1]}

\* The orders of the rows `ids` in which the timestamps ascend
Ascending(ids) ==
    {o \in Orderings(ids) :
        \A k \in 1..(Len(o) - 1) :
           messages[o[k]].timestamp <= messages[o[k + 1]].timestamp}

\* C23 as claimed: the prompt handed to the provider is the system
\* instruction, then every earlier stored turn of the conversation in
\* ascending timestamp order reduced to role and content, then the current
\* user message: that message is there once, last, and no earlier turn is
\* missing.
C23_PromptIsHistoryThenMessage ==
    \A r \in ReqIds :
       (chats[r].pc \in {"processing", "responded"} /\ chats[r].provider_calls >= 1) =>
          \E o \in Ascending(EarlierRows(r)) :
             chats[r].prompt =
                <<system_message>>
                \o FormattedHistory(messages, o)
                \o <<[role |-> "user", content |-> chats[r].message]>>

\* C24 as claimed: however two requests on one conversation interleave, the
\* entry that formatted_history[:-1] drops is the request's own user message,
\* and the context passed on is every other message the conversation held
\* when the history was read.
C24_DroppedEntryIsOwnMessage ==
    \A r \in ReqIds :
       (chats[r].pc \in {"awaiting", "processing", "responded"}
        /\ chats[r].history # <<>>) =>
          /\ chats[r].history[Len(chats[r].history)] = chats[r].stored[1]
          /\ \E o \in Ascending(EarlierRows(r)) :
                chats[r].context = FormattedHistory(messages, o)

\* C25 as claimed: a failed turn leaves no trace: once every request on a
\* conversation has finished, with a reply or with an error, the stored
\* history of the conversation alternates user, assistant: every user
\* message is followed by an assistant message.
C25_HistoryAlternates ==
    \A c \in DOMAIN conversations :
       (\A r \in ReqIds :
           (chats[r].pc # "new" /\ chats[r].conversation = c)
           => chats[r].pc = "responded")
       => LET ids == {i \in DOMAIN messages : messages[i].conversation_id = c}
              Rank(i) == Cardinality({j \in ids : j <= i})
          IN  /\ Cardinality(ids) % 2 = 0
              /\ \A i \in ids :
                    messages[i].role = IF Rank(i) % 2 = 1 THEN "user"
                                       ELSE "assistant"

\* C22: the table after a tool invocation is the table that invocation
\* left, which is the table the next invocation finds; when the turn raises
\* after k invocations, the task every successful add_task among them
\* reported is in the table; the HTTP 500 that answers the request leaves the
\* table as it is, and no later step of a chat takes a row out or alters it.
C22_CommittedMutationsRemain ==
    /\ [](turn.pc \in {"tools", "raised"} =>
            /\ \A k \in 1..Len(turn.dispatched) :
                  /\ k > 1 => turn.dispatched[k].table = turn.dispatched[k - 1].after
                  /\ (/\ turn.dispatched[k].name = "add_task"
                      /\ ~IsRaised(turn.dispatched[k].res)
                      /\ turn.dispatched[k].res.success)
                     => /\ turn.dispatched[k].res.task_id \in DOMAIN tasks
                        /\ tasks[turn.dispatched[k].res.task_id].user_id = turn.user_id
            /\ turn.dispatched # <<>> =>
                  tasks = turn.dispatched[Len(turn.dispatched)].after)
    /\ [][/\ \A r \in ReqIds :
               (/\ chats[r].pc = "processing"
                /\ chats'[r].pc = "responded"
                /\ chats'[r].status = 500) => tasks' = tasks
          /\ \A id \in DOMAIN tasks :
               id \in DOMAIN tasks' /\ tasks'[id] = tasks[id]]_vars

\* C22 witness: a request was answered with 500 for the unparsable arguments
\* of its second invocation, and the task its first invocation added is there
C22_Witness ==
    \E r \in ReqIds :
       /\ chats[r].pc = "responded"
       /\ chats[r].status = 500
       /\ chats[r].detail = "Error processing message: JSONDecodeError"
       /\ chats[r].executed = 1
       /\ \E id \in DOMAIN tasks : tasks[id].user_id = chats[r].user_id

(***************************************************************************)
(* The REST service and the rows of the task table.                        *)
(***************************************************************************)

\* C21 as claimed: every task in the table has a title of 1 to 255
\* characters and a status of pending or completed.
C21_TitleAndStatusValid ==
    \A id \in DOMAIN tasks :
       /\ Len(tasks[id].title) >= 1
       /\ Len(tasks[id].title) <= 255
       /\ tasks[id].status \in {"pending", "completed"}

\* C27 as claimed: toggle_task_completion on a task the user owns flips the
\* completion state of the task (pending to completed, completed to pending,
\* so that two toggles restore it) and returns the task; on a missing task
\* or a task of another user it returns none (404) and changes nothing.
C27_ToggleFlips ==
    (call.op = "patch_task" /\ call.current_user_id = call.user_id) =>
        IF call.task_id \in DOMAIN before
           /\ before[call.task_id].user_id = call.user_id
        THEN /\ ~IsRaised(result)
             /\ call.task_id \in DOMAIN tasks
             /\ tasks[call.task_id].status =
                   (IF before[call.task_id].status = "pending" THEN "completed"
                    ELSE "pending")
             /\ result.task = tasks[call.task_id]
             /\ \A id \in DOMAIN before \ {call.task_id} :
                   id \in DOMAIN tasks /\ tasks[id] = before[id]
        ELSE /\ result = [status |-> 404, detail |-> "Task not found"]
             /\ tasks = before

\* C28 as claimed: create_task through POST with a valid title, by the
\* authenticated user of the URL, stores exactly one new task, owned by that
\* user, with the requested title and status, and returns it; the user's
\* tasks include it afterwards.
C28_CreateStoresOne ==
    (call.op = "post_task" /\ call.current_user_id = call.user_id) =>
        /\ ~IsRaised(result)
        /\ \E id \in DOMAIN tasks \ DOMAIN before :
              /\ DOMAIN tasks = DOMAIN before \cup {id}
              /\ tasks[id].user_id = call.user_id
              /\ tasks[id].title = call.task.title
              /\ tasks[id].status = call.task.status
              /\ result.id = id
              /\ result.task = tasks[id]
              /\ id \in {i \in DOMAIN tasks : tasks[i].user_id = call.user_id}
        /\ \A id \in DOMAIN before : tasks[id] = before[id]


====
